---- MODULE Spec2Model ----
(***************************************************************************)
(* Model of transfer.py: transfer-learning fine-tuning with a checkpoint   *)
(* store, an activation tap, a regularisation term, an epoch loop and a    *)
(* best-model selector.  One run of the script is one process; the         *)
(* checkpoint file is the only state that survives from run to run.        *)
(***************************************************************************)
EXTENDS Integers, Sequences, FiniteSets, TLC

\* ------------------------------------------------------------------ bounds
MaxBatches == 3      \* len(train_loader) ranges over 1..MaxBatches
MaxEpochs == 2       \* --num_epochs ranges over 0..MaxEpochs
MaxAcc == 2          \* accuracies are the levels 0..MaxAcc of [0,1]
MaxCkptEpoch == 1    \* epoch field of a checkpoint found on disk at start
MaxBnLayers == 1     \* len(get_bn_layers(model)) ranges over 0..MaxBnLayers
MaxRuns == 2         \* successive runs of the script on the same path

Acc == 0..MaxAcc

\* ------------------------------------------------------------ Python values
\* The distinctions the script's expressions depend on: a tensor, the tuple
\* a forward hook receives, None, a list, and a raised exception.
Tensor(v) == [kind |-> "tensor", val |-> v]
TupleOf(src) == [kind |-> "tuple", src |-> src]
None == [kind |-> "none"]
ListOf(items) == [kind |-> "list", items |-> items]
Raise(e) == [kind |-> "raise", err |-> e]

Unbound == [kind |-> "unbound"]

\* argparse, line 19: the values --network accepts.
NetworkChoices == {"Unet", "UnetPlusPlus"}
\* lines 71-74: the values for which a model is bound.
RecognizedNetworks == {"resnet18", "resnet34"}

\* ------------------------------------------------------------ metrics log
\* logs is a defaultdict(list): a key exists once it has been indexed.
EmptyLogs == [k \in {} |-> <<>>]

Series(logs, k) == IF k \in DOMAIN logs THEN logs[k] ELSE <<>>

\* extend() replaced by an assignment: the series is overwritten.
Extend_overwrite(logs, k, vals) ==
    [x \in (DOMAIN logs) \cup {k} |-> IF x = k THEN vals ELSE logs[x]]

\* logs[k].extend(vals) (logs[k].append(v) is Extend(logs, k, <<v>>)).
Extend(logs, k, vals) ==
    [x \in (DOMAIN logs) \cup {k} |->
        IF x = k THEN Series(logs, k) \o vals ELSE logs[x]]

\* ------------------------------------------------------------- checkpoint
NoFile == [exists |-> FALSE]

\* The bundle of lines 163-164.
Checkpoint(m, o, e, a, l) ==
    [exists |-> TRUE, model |-> m, optimizer |-> o, epoch |-> e, acc |-> a,
     logs |-> l]

\* A model object: its tapped normalisation layers, the optimizer steps
\* applied to its parameters, its train/eval mode and the number of
\* training-mode forward passes its running statistics have absorbed.
ModelObj(bn, steps, mode, rm) ==
    [kind |-> "model", bn |-> bn, steps |-> steps, mode |-> mode, rm |-> rm]

OptimizerObj(steps) == [kind |-> "optimizer", steps |-> steps]

\* Key sets of the logs of a checkpoint found on disk.
CkptKeySets ==
    { {}, {"acc", "loss_bn", "val_acc"},
      {"acc", "loss_bn", "loss_crit", "val_acc"} }

\* A logged float, kept exact: num / den.
Rat(num, den) == [num |-> num, den |-> den]

RatEq(x, y) == x.num * y.den = y.num * x.den

CkptLogs(keys, len) == [k \in keys |-> [i \in 1..len |-> Rat(0, 1)]]

\* Checkpoints that may lie at args.ckpt when the first run starts.
InitialCheckpoints(n) ==
    { Checkpoint(ModelObj(bn, 0, "eval", 0), OptimizerObj(0), e, a,
                 CkptLogs(keys, e * n)) :
        bn \in 0..MaxBnLayers, e \in 0..MaxCkptEpoch, a \in Acc,
        keys \in CkptKeySets }

\* ------------------------------------------------------------------ state
VARIABLES
    disk,               \* the file at args.ckpt
    nBatches,           \* len(train_loader)
    run,                \* number of runs started
    args,               \* parsed command line of the current run
    pc,                 \* position of the current run
    error,              \* the exception that ended the run, or "none"
    model, optimizer, init_epoch, best_acc, logs, valid_acc,
    bn_layers,          \* len(bn_layers), -1 before line 88
    layer_activations,  \* the Activation Capture Buffer
    epoch, step,        \* loop variables of lines 117 and 120
    disk0,              \* the file as it was when the current run started
    fwd,                \* training forward passes executed by this run
    epochsBegun,        \* epochs whose body this run entered
    saves,              \* torch.save calls of this run
    decisions           \* selector decisions of this run, in order

vars == <<disk, nBatches, run, args, pc, error, model, optimizer, init_epoch,
          best_acc, logs, valid_acc, bn_layers, layer_activations, epoch,
          step, disk0, fwd, epochsBegun, saves, decisions>>

ArgSet ==
    [network : NetworkChoices, num_epochs : 0..MaxEpochs,
     unsupervised : BOOLEAN, resume_training : BOOLEAN, reset : BOOLEAN,
     save_best : BOOLEAN]

NoArgs ==
    [network |-> "Unet", num_epochs |-> 0, unsupervised |-> FALSE,
     resume_training |-> FALSE, reset |-> FALSE, save_best |-> FALSE]

Terminal == {"done", "crashed"}

\* The module-level names of a process that has not run any statement yet.
ProcessUnset ==
    /\ error = "none"
    /\ model = Unbound
    /\ optimizer = Unbound
    /\ init_epoch = 0
    /\ best_acc = 0
    /\ logs = EmptyLogs
    /\ valid_acc = 0
    /\ bn_layers = -1
    /\ layer_activations = <<>>
    /\ epoch = 0
    /\ step = 0
    /\ fwd = 0
    /\ epochsBegun = 0
    /\ saves = 0
    /\ decisions = <<>>

Init ==
    /\ nBatches \in 1..MaxBatches
    /\ disk \in {NoFile} \cup InitialCheckpoints(nBatches)
    /\ run = 0
    /\ args = NoArgs
    /\ pc = "idle"
    /\ disk0 = disk
    /\ ProcessUnset

\* ---------------------------------------------------------------- startup
\* A new process: every module-level name is unset again.
ProcessReset ==
    /\ error' = "none"
    /\ model' = Unbound
    /\ optimizer' = Unbound
    /\ init_epoch' = 0
    /\ best_acc' = 0
    /\ logs' = EmptyLogs
    /\ valid_acc' = 0
    /\ bn_layers' = -1
    /\ layer_activations' = <<>>
    /\ epoch' = 0
    /\ step' = 0
    /\ fwd' = 0
    /\ epochsBegun' = 0
    /\ saves' = 0
    /\ decisions' = <<>>

\* lines 16-34: the script is started with a command line argparse accepts.
StartRun(a) ==
    /\ pc = "idle"
    /\ run < MaxRuns
    /\ run' = run + 1
    /\ args' = a
    /\ pc' = "load"
    /\ disk0' = disk
    /\ UNCHANGED <<disk, nBatches, error, model, optimizer, init_epoch,
                   best_acc, logs, valid_acc, bn_layers, layer_activations,
                   epoch, step, fwd, epochsBegun, saves, decisions>>

\* The interpreter exits, normally or on the unhandled exception: only the
\* file survives.
ProcessExit ==
    /\ pc \in Terminal
    /\ pc' = "idle"
    /\ args' = NoArgs
    /\ disk0' = disk
    /\ ProcessReset
    /\ UNCHANGED <<disk, nBatches, run>>

\* The test of line 58 with the reset flag ignored.
RestoresCheckpoint_ignoresReset(exists, reset) == exists

\* line 58: os.path.exists(args.ckpt) and not args.reset
RestoresCheckpoint(exists, reset) == exists /\ ~reset

\* lines 59-64
LoadCheckpoint ==
    /\ pc = "load"
    /\ RestoresCheckpoint(disk.exists, args.reset)
    /\ model' = disk.model
    /\ optimizer' = disk.optimizer
    /\ init_epoch' = disk.epoch
    /\ logs' = disk.logs
    /\ best_acc' = disk.acc
    /\ pc' = "eval0"
    /\ UNCHANGED <<disk, nBatches, run, args, error, valid_acc, bn_layers,
                   layer_activations, epoch, step, disk0, fwd, epochsBegun,
                   saves, decisions>>

\* Model selection with a final else that binds a default model.
SelectModel_default(network) == ModelObj(MaxBnLayers, 0, "train", 0)

\* lines 71-74: two ifs and no else; model stays unbound for any other value.
SelectModel(network) ==
    IF network \in RecognizedNetworks
    THEN ModelObj(MaxBnLayers, 0, "train", 0)
    ELSE Unbound

\* lines 67-77: model.to(device) on an unbound name raises NameError before
\* the optimizer is created.
FreshConstruct ==
    /\ pc = "load"
    /\ ~RestoresCheckpoint(disk.exists, args.reset)
    /\ init_epoch' = 0
    /\ best_acc' = 0
    /\ logs' = EmptyLogs
    /\ model' = SelectModel(args.network)
    /\ IF model' = Unbound
       THEN /\ error' = "NameError"
            /\ pc' = "crashed"
            /\ optimizer' = optimizer
       ELSE /\ error' = error
            /\ pc' = "eval0"
            /\ optimizer' = OptimizerObj(0)
    /\ UNCHANGED <<disk, nBatches, run, args, valid_acc, bn_layers,
                   layer_activations, epoch, step, disk0, fwd, epochsBegun,
                   saves, decisions>>

\* line 80: test_accuracy(model, valid_loader); the hooks are not registered
\* yet, so its forward passes leave no trace.
InitialEvaluate(a) ==
    /\ pc = "eval0"
    /\ valid_acc' = a
    /\ pc' = "hooks"
    /\ UNCHANGED <<disk, nBatches, run, args, error, model, optimizer,
                   init_epoch, best_acc, logs, bn_layers, layer_activations,
                   epoch, step, disk0, fwd, epochsBegun, saves, decisions>>

\* lines 88-100
SetupHooks ==
    /\ pc = "hooks"
    /\ bn_layers' = model.bn
    /\ layer_activations' = [i \in 1..model.bn |-> None]
    /\ pc' = "guard"
    /\ UNCHANGED <<disk, nBatches, run, args, error, model, optimizer,
                   init_epoch, best_acc, logs, valid_acc, epoch, step, disk0,
                   fwd, epochsBegun, saves, decisions>>

\* The guard of line 112 with its negation dropped.
EntersTraining_swapped(exists, resume_training) ==
    exists \/ resume_training

\* line 112: not os.path.exists(args.ckpt) or args.resume_training
EntersTraining(exists, resume_training) == ~exists \/ resume_training

\* line 112, and the first evaluation of range() at line 117
TrainingGuard ==
    /\ pc = "guard"
    /\ IF EntersTraining(disk.exists, args.resume_training)
       THEN pc' = "epoch" /\ epoch' = init_epoch
       ELSE pc' = "plot" /\ epoch' = epoch
    /\ UNCHANGED <<disk, nBatches, run, args, error, model, optimizer,
                   init_epoch, best_acc, logs, valid_acc, bn_layers,
                   layer_activations, step, disk0, fwd, epochsBegun, saves,
                   decisions>>

\* ------------------------------------------------- activation tap, penalty
\* lines 93-96: the hook stores `inputs`, the tuple of the layer's
\* positional arguments, not the tensor inside it.
HookCapture(src) == TupleOf(src)

\* A forward pass whose hooks do not fire: the buffer keeps what it held.
Forward_noHook(acts, src) == acts

\* A forward pass of the model with the hooks registered: every tapped layer
\* runs and its hook overwrites its slot.
Forward(acts, src) == [i \in DOMAIN acts |-> HookCapture(src)]

\* line 105: input.mean(dim=[0, 2, 3]) exists on a tensor only.
LayerTerm(act) ==
    IF act.kind = "tensor" THEN Tensor(0) ELSE Raise("AttributeError")

\* lines 103-107: a list with one entry per tapped layer; no sum is taken.
get_bn_loss(acts) ==
    IF \E i \in DOMAIN acts : LayerTerm(acts[i]).kind = "raise"
    THEN Raise("AttributeError")
    ELSE ListOf([i \in DOMAIN acts |-> LayerTerm(acts[i])])

\* v.item(): defined on a tensor, not on a list.
Item(v) == IF v.kind = "tensor" THEN v ELSE Raise("AttributeError")

\* a + b with a a tensor: defined when b is a tensor, not when it is a list.
Add(a, b) ==
    IF a.kind = "tensor" /\ b.kind = "tensor"
    THEN Tensor(a.val + b.val)
    ELSE Raise("TypeError")

\* lines 129-139: the metrics dict of one step, or the exception raised
\* while building it.
StepMetrics(unsupervised, acc, loss_bn) ==
    IF loss_bn.kind = "raise" THEN loss_bn
    ELSE IF unsupervised
    THEN IF Item(loss_bn).kind = "raise" THEN Item(loss_bn)
         ELSE [kind |-> "metrics",
               m |-> [acc |-> Rat(acc, 1),
                      loss_bn |-> Rat(Item(loss_bn).val, 1)]]
    ELSE IF Add(Tensor(0), loss_bn).kind = "raise"
         THEN Add(Tensor(0), loss_bn)
         ELSE IF Item(loss_bn).kind = "raise" THEN Item(loss_bn)
         ELSE [kind |-> "metrics",
               m |-> [acc |-> Rat(acc, 1),
                      loss_bn |-> Rat(Item(loss_bn).val, 1),
                      loss_crit |-> Rat(0, 1)]]

\* lines 141-142
AppendMetrics(lg, m) ==
    [x \in (DOMAIN lg) \cup (DOMAIN m) |->
        IF x \in DOMAIN m THEN Append(Series(lg, x), m[x]) ELSE lg[x]]

\* ----------------------------------------------------------- epoch boundary
\* The interpolation with the end point left out (step (b - a) / n).
Linspace_openEnd(a, b, n) ==
    [i \in 1..n |-> Rat(a * n + (i - 1) * (b - a), n)]

\* line 155: torch.linspace(a, b, steps=n).tolist(): no value for n = 0, the
\* start alone for n = 1, else a + i * (b - a) / (n - 1) for i = 0..n-1.
Linspace(a, b, n) ==
    IF n = 0 THEN <<>>
    ELSE IF n = 1 THEN <<Rat(a, 1)>>
    ELSE [i \in 1..n |-> Rat(a * (n - 1) + (i - 1) * (b - a), n - 1)]

\* The selector with >= for >, and with the save_best test lost.
ShouldSave_orEqual(save_best, new_acc, best) == ~save_best \/ new_acc >= best

ShouldSave_always(save_best, new_acc, best) == TRUE

\* line 158: not args.save_best or valid_acc > best_acc
ShouldSave(save_best, new_acc, best) == ~save_best \/ new_acc > best

\* The bundle with the loop index stored as it is.
SavedBundle_loopIndex(m, o, e, best, lg) == Checkpoint(m, o, e, best, lg)

\* lines 163-164: the bundle handed to torch.save.
SavedBundle(m, o, e, best, lg) == Checkpoint(m, o, e + 1, best, lg)

\* lines 152-164 as a function of the loop state s, the accuracy new_acc that
\* test_accuracy returns at line 154, args.save_best and len(train_loader).
EpochEnd(s, new_acc, save_best, n) ==
    LET m == [s.model EXCEPT !.mode = "eval"]
        lg == Extend(s.logs, "val_acc", Linspace(s.valid_acc, new_acc, n))
        ok == ShouldSave(save_best, new_acc, s.best_acc)
        best == IF ok THEN new_acc ELSE s.best_acc
    IN  [model |-> m,
         optimizer |-> s.optimizer,
         valid_acc |-> new_acc,
         logs |-> lg,
         best_acc |-> best,
         layer_activations |-> Forward(s.layer_activations, "valid"),
         disk |-> IF ok THEN SavedBundle(m, s.optimizer, s.epoch, best, lg)
                  ELSE s.disk,
         saves |-> IF ok THEN s.saves + 1 ELSE s.saves,
         decisions |-> Append(s.decisions,
                              [epoch |-> s.epoch, prev |-> s.valid_acc,
                               new |-> new_acc, best |-> s.best_acc,
                               approved |-> ok])]

\* ---------------------------------------------------------------- the loop
\* line 117 (range test), lines 118-119
EpochHead ==
    /\ pc = "epoch"
    /\ IF epoch < init_epoch + args.num_epochs
       THEN /\ model' = [model EXCEPT !.mode = "train"]
            /\ step' = epoch * nBatches
            /\ epochsBegun' = epochsBegun + 1
            /\ pc' = "step"
       ELSE /\ pc' = "after_loop"
            /\ UNCHANGED <<model, step, epochsBegun>>
    /\ UNCHANGED <<disk, nBatches, run, args, error, optimizer, init_epoch,
                   best_acc, logs, valid_acc, bn_layers, layer_activations,
                   epoch, disk0, fwd, saves, decisions>>

\* lines 120-150 for one batch and, after the last batch of the epoch,
\* lines 152-164.  a is the step accuracy, va the accuracy test_accuracy
\* returns at line 154.
TrainStep(a, va) ==
    /\ pc = "step"
    /\ LET acts == Forward(layer_activations, "train")
           m1 == [model EXCEPT !.rm = @ + 1]
           res == StepMetrics(args.unsupervised, a, get_bn_loss(acts))
       IN
       /\ fwd' = fwd + 1
       /\ IF res.kind = "raise"
          THEN /\ error' = res.err
               /\ pc' = "crashed"
               /\ model' = m1
               /\ layer_activations' = acts
               /\ UNCHANGED <<disk, optimizer, best_acc, logs, valid_acc,
                              epoch, step, saves, decisions>>
          ELSE LET lg == AppendMetrics(logs, res.m)
                   o2 == [optimizer EXCEPT !.steps = @ + 1]
                   m2 == [m1 EXCEPT !.steps = @ + 1]
               IN
               IF step + 1 < (epoch + 1) * nBatches
               THEN /\ logs' = lg
                    /\ optimizer' = o2
                    /\ model' = m2
                    /\ layer_activations' = acts
                    /\ step' = step + 1
                    /\ UNCHANGED <<disk, error, pc, best_acc, valid_acc,
                                   epoch, saves, decisions>>
               ELSE LET s == EpochEnd(
                                [model |-> m2, optimizer |-> o2,
                                 valid_acc |-> valid_acc, logs |-> lg,
                                 best_acc |-> best_acc, epoch |-> epoch,
                                 layer_activations |-> acts, disk |-> disk,
                                 saves |-> saves, decisions |-> decisions],
                                va, args.save_best, nBatches)
                    IN /\ model' = s.model
                       /\ optimizer' = s.optimizer
                       /\ valid_acc' = s.valid_acc
                       /\ logs' = s.logs
                       /\ best_acc' = s.best_acc
                       /\ layer_activations' = s.layer_activations
                       /\ disk' = s.disk
                       /\ saves' = s.saves
                       /\ decisions' = s.decisions
                       /\ epoch' = epoch + 1
                       /\ pc' = "epoch"
                       /\ UNCHANGED <<error, step>>
    /\ UNCHANGED <<nBatches, run, args, init_epoch, bn_layers, disk0,
                   epochsBegun>>

\* obj[key] on the object stored under 'model': a model is not subscriptable.
Subscript(obj, key) ==
    IF obj.kind = "dict" THEN obj[key] ELSE Raise("TypeError")

\* lines 167-168: torch.load(args.ckpt)['model'], then ['epoch'] on it.
FinalReload(d) ==
    IF ~d.exists THEN Raise("FileNotFoundError")
    ELSE Subscript(d.model, "epoch")

\* lines 166-168
AfterLoop ==
    /\ pc = "after_loop"
    /\ IF args.save_best /\ FinalReload(disk).kind = "raise"
       THEN error' = FinalReload(disk).err /\ pc' = "crashed"
       ELSE error' = error /\ pc' = "plot"
    /\ UNCHANGED <<disk, nBatches, run, args, model, optimizer, init_epoch,
                   best_acc, logs, valid_acc, bn_layers, layer_activations,
                   epoch, step, disk0, fwd, epochsBegun, saves, decisions>>

\* line 171
FinalPlot ==
    /\ pc = "plot"
    /\ pc' = "done"
    /\ UNCHANGED <<disk, nBatches, run, args, error, model, optimizer,
                   init_epoch, best_acc, logs, valid_acc, bn_layers,
                   layer_activations, epoch, step, disk0, fwd, epochsBegun,
                   saves, decisions>>

Next ==
    \/ \E a \in ArgSet : StartRun(a)
    \/ LoadCheckpoint
    \/ FreshConstruct
    \/ \E a \in Acc : InitialEvaluate(a)
    \/ SetupHooks
    \/ TrainingGuard
    \/ EpochHead
    \/ \E a, va \in Acc : TrainStep(a, va)
    \/ AfterLoop
    \/ FinalPlot
    \/ ProcessExit

Spec == Init /\ [][Next]_vars

\* ------------------------------------------- the epoch boundary on its own
\* lines 152-164 applied, epoch after epoch, to the loop state that startup
\* (lines 58-100, 112, 117) hands to the loop.  The inputs are drawn from the
\* bounded sets: the file found at start, the command line and the accuracy
\* of line 80; what the block does not read (the network, the unsupervised
\* flag, the number of tapped layers) is held fixed.  The batch loop of
\* lines 120-150 is not part of this specification.
InitEpochEnd ==
    /\ nBatches \in 1..MaxBatches
    /\ disk \in {NoFile} \cup
                {c \in InitialCheckpoints(nBatches) :
                    c.model.bn = MaxBnLayers}
    /\ args \in {a \in ArgSet :
                    /\ a.network = "Unet"
                    /\ ~a.unsupervised
                    /\ a.num_epochs >= 1
                    /\ EntersTraining(disk.exists, a.resume_training)
                    /\ ~disk.exists => (~a.reset /\ ~a.resume_training)}
    /\ IF RestoresCheckpoint(disk.exists, args.reset)
       THEN /\ model = disk.model
            /\ optimizer = disk.optimizer
            /\ init_epoch = disk.epoch
            /\ logs = disk.logs
            /\ best_acc = disk.acc
       ELSE /\ model = ModelObj(MaxBnLayers, 0, "train", 0)
            /\ optimizer = OptimizerObj(0)
            /\ init_epoch = 0
            /\ logs = EmptyLogs
            /\ best_acc = 0
    /\ valid_acc \in Acc
    /\ bn_layers = model.bn
    /\ layer_activations = [i \in 1..model.bn |-> None]
    /\ epoch = init_epoch
    /\ pc = "epoch_end"
    /\ run = 1
    /\ error = "none"
    /\ step = 0
    /\ disk0 = disk
    /\ fwd = 0
    /\ epochsBegun = 0
    /\ saves = 0
    /\ decisions = <<>>

\* lines 152-164 for the epoch with index epoch; va is what test_accuracy
\* returns at line 154.
ApplyEpochEnd(va) ==
    /\ pc = "epoch_end"
    /\ epoch < init_epoch + args.num_epochs
    /\ LET s == EpochEnd(
                    [model |-> model, optimizer |-> optimizer,
                     valid_acc |-> valid_acc, logs |-> logs,
                     best_acc |-> best_acc, epoch |-> epoch,
                     layer_activations |-> layer_activations, disk |-> disk,
                     saves |-> saves, decisions |-> decisions],
                    va, args.save_best, nBatches)
       IN /\ model' = s.model
          /\ optimizer' = s.optimizer
          /\ valid_acc' = s.valid_acc
          /\ logs' = s.logs
          /\ best_acc' = s.best_acc
          /\ layer_activations' = s.layer_activations
          /\ disk' = s.disk
          /\ saves' = s.saves
          /\ decisions' = s.decisions
    /\ epoch' = epoch + 1
    /\ UNCHANGED <<nBatches, run, args, pc, error, init_epoch, bn_layers,
                   step, disk0, fwd, epochsBegun>>

NextEpochEnd == \E va \in Acc : ApplyEpochEnd(va)

SpecEpochEnd == InitEpochEnd /\ [][NextEpochEnd]_vars

\* ================================================================== claims
TrainingPcs == {"epoch", "step", "after_loop"}

\* C1: a run started while the checkpoint file exists and resume_training is
\* unset (whatever reset, save_best, unsupervised and num_epochs are) never
\* enters the training branch: no training forward pass, no optimizer step,
\* no log append, no interpolation, no selector decision and no torch.save;
\* the file stays what it was when the run started, so repeating the run
\* leaves it unchanged.
C1_NoTrainingWithoutResume ==
    (pc # "idle" /\ disk0.exists /\ ~args.resume_training) =>
        /\ pc \notin TrainingPcs
        /\ fwd = 0
        /\ epochsBegun = 0
        /\ saves = 0
        /\ decisions = <<>>
        /\ disk = disk0
        /\ optimizer \in {Unbound, disk0.optimizer}
        /\ logs \in {EmptyLogs, disk0.logs}

\* A second run of that kind on the same file has run to its end.
C1_Witness ==
    /\ run >= 2
    /\ pc = "done"
    /\ disk0.exists
    /\ ~args.resume_training
    /\ logs = disk0.logs
    /\ disk = disk0

StepKeys == {"acc", "loss_bn"}

StartupOver == pc = "eval0" \/ (pc = "crashed" /\ bn_layers = -1)

\* C5: after startup, if the file existed and reset was not set, model,
\* optimizer, epoch, best_acc and logs are the checkpoint's; in every other
\* case there is a fresh model, a fresh optimizer, an empty log, epoch 0
\* and best_acc 0, and the run goes on.
C5_StartupPolicy ==
    StartupOver =>
        IF disk0.exists /\ ~args.reset
        THEN /\ pc = "eval0"
             /\ model = disk0.model
             /\ optimizer = disk0.optimizer
             /\ init_epoch = disk0.epoch
             /\ best_acc = disk0.acc
             /\ logs = disk0.logs
        ELSE /\ pc = "eval0"
             /\ model.kind = "model"
             /\ optimizer.kind = "optimizer"
             /\ init_epoch = 0
             /\ best_acc = 0
             /\ logs = EmptyLogs

RatSub(x, y) == Rat(x.num * y.den - y.num * x.den, x.den * y.den)

EvenlySpaced(q) ==
    \A i \in 1..(Len(q) - 2) :
        RatEq(RatSub(q[i + 1], q[i]), RatSub(q[i + 2], q[i + 1]))

\* What an epoch boundary added to the val_acc series.
AddedValAcc ==
    SubSeq(Series(logs', "val_acc"), Len(Series(logs, "val_acc")) + 1,
           Len(Series(logs', "val_acc")))

ValAccKept ==
    SubSeq(Series(logs', "val_acc"), 1, Len(Series(logs, "val_acc")))
        = Series(logs, "val_acc")

C8_FreshRunScenario ==
    (/\ pc \in Terminal
     /\ args.reset
     /\ args.num_epochs = 1
     /\ ~args.unsupervised
     /\ ~args.save_best) =>
        /\ pc = "done"
        /\ disk.exists
        /\ disk.epoch = 1
        /\ Len(Series(disk.logs, "acc")) = nBatches
        /\ "loss_crit" \in DOMAIN disk.logs

RestoredKeys ==
    IF disk0.exists /\ ~args.reset THEN DOMAIN disk0.logs ELSE {}

Max(a, b) == IF a >= b THEN a ELSE b

TrainingEntered ==
    /\ bn_layers # -1
    /\ pc \notin {"guard", "plot"}
    /\ ~disk0.exists \/ args.resume_training

\* C11: a run that entered the training branch executes exactly num_epochs
\* epochs, each with every training batch once, one evaluation and one
\* selector decision, and then leaves the loop for the final step (whose
\* own success is C12); with num_epochs = 0 no epoch runs.
C11_RunsAllEpochs ==
    (TrainingEntered /\ pc \in Terminal) =>
        /\ epochsBegun = args.num_epochs
        /\ fwd = args.num_epochs * nBatches
        /\ Len(decisions) = args.num_epochs
        /\ epoch = init_epoch + args.num_epochs

\* C12: whenever the training branch has finished with save_best set, the
\* final step succeeds: the checkpoint is reloaded, its epoch count is
\* reported and the run goes on to the final plot.
C12_FinalReloadSucceeds ==
    [][ (pc = "after_loop" /\ args.save_best) =>
          (pc' = "plot" /\ error' = "none") ]_vars

\* C13: at every training step the penalty is a single scalar, the sum of
\* the per-layer values of get_bn_loss, so the step raises nothing and
\* completes its metric append and its optimizer step.
C13_PenaltyIsScalar ==
    (fwd >= 1) =>
        /\ get_bn_loss(layer_activations).kind = "tensor"
        /\ error = "none"
        /\ \A k \in StepKeys : Len(Series(logs, k)) >= 1
        /\ optimizer.steps >= 1

IsPrefix(p, q) ==
    /\ Len(p) <= Len(q)
    /\ \A i \in 1..Len(p) : q[i] = p[i]

\* The log the run started with (line 63 or line 69).
LogsAtStart ==
    IF RestoresCheckpoint(disk0.exists, args.reset)
    THEN disk0.logs ELSE EmptyLogs

C15_SlotsFreshAtPenalty ==
    (fwd >= 1) =>
        /\ Len(layer_activations) = bn_layers
        /\ \A i \in DOMAIN layer_activations :
              /\ layer_activations[i] # None
              /\ layer_activations[i] = HookCapture("train")

\* The first training step of a resumed run with a tapped layer has run its
\* forward pass and called get_bn_loss.
C15_Witness ==
    /\ fwd = 1
    /\ bn_layers >= 1
    /\ valid_acc >= 1
    /\ \A i \in 1..bn_layers : layer_activations[i] = HookCapture("train")

\* C16: the running_mean read by get_bn_loss is a fixed target: at every
\* penalty computation it equals its value when the model was loaded; no
\* training forward pass changes it.
C16_ReferenceFixed ==
    (fwd >= 1 /\ bn_layers >= 1) => model.rm = disk0.model.rm

\* C17: on a forward pass the observer of layer l writes slot l with that
\* layer's input tensor, which is what get_bn_loss reads from the slot; the
\* buffer has one slot per tapped layer, and the model's parameters, the
\* optimizer and the log are left alone.
C17_SlotHoldsInput ==
    (fwd >= 1 /\ bn_layers >= 1) =>
        /\ Len(layer_activations) = bn_layers
        /\ \A i \in 1..bn_layers :
              /\ layer_activations[i].kind = "tensor"
              /\ LayerTerm(layer_activations[i]).kind = "tensor"
        /\ model.steps = disk0.model.steps
        /\ optimizer = disk0.optimizer
        /\ logs = disk0.logs

\* The run took the else branch of line 58 and has executed it.
FreshPathTaken ==
    /\ pc \notin {"idle", "load"}
    /\ ~RestoresCheckpoint(disk0.exists, args.reset)

\* C18: on the fresh path every accepted --network value leaves the model
\* unbound without an error at selection, and the run ends with NameError at
\* the first use of the model: no optimizer created, no log entry appended,
\* no forward pass run, no checkpoint written.
C18_FreshPathNameError ==
    /\ NetworkChoices \cap RecognizedNetworks = {}
    /\ \A nw \in NetworkChoices : SelectModel(nw) = Unbound
    /\ FreshPathTaken =>
          /\ pc = "crashed"
          /\ error = "NameError"
          /\ model = Unbound
          /\ optimizer = Unbound
          /\ logs = EmptyLogs
          /\ bn_layers = -1
          /\ fwd = 0
          /\ saves = 0
          /\ disk = disk0

\* The second run of a chain, started with --reset on an existing file, has
\* ended at line 75.
C18_Witness ==
    /\ FreshPathTaken
    /\ pc = "crashed"
    /\ error = "NameError"
    /\ model = Unbound
    /\ run = 2
    /\ disk0.exists
    /\ args.reset
    /\ args.network = "UnetPlusPlus"

====
